---- MODULE Spec2Model ----
EXTENDS Integers, Sequences, FiniteSets, TLC

(***************************************************************************)
(* SPIN training bot: the inference gateway (LLMService.call_llm), the      *)
(* session state machine (bot.py handle_message / start_command /          *)
(* start_training_callback on top of SpinTrainingService and UserServiceDB)*)
(* and the completion check.                                               *)
(***************************************************************************)

\* ------------------------------------------------------------------ bounds
\* game rules come from the scenario file; small values keep the model finite
max_questions == 4
min_questions_for_completion == 2
\* number of start_training calls and of completed rounds explored for one user
MaxStarts == 1
MaxTrainings == 1
\* last value of the clock and number of handler tasks in the stepwise model
MaxTime == 10
MaxTasks == 2
MaxCompletions == 3
MaxXp == 300
MaxStartCalls == 7
MaxReplyLen == 3
MaxQuestionLen == 2
MaxPaymentOps == 5

\* ------------------------------------------------------- program constants
LLM_MAX_RETRIES == 1
bonus_points == 5
cooldown_sec == 5
short_question_threshold == 5
clarity_cap == 100
target_clarity == 80
recent_cases_limit == 5
ttl_sec == 1200

\* the fixed message call_llm returns when the fallback fails too
ERROR_TEXT == "error: generation failed, try again later"
FEEDBACK_FIRST_ASK == "first ask the client a question"

Min(a, b) == IF a < b THEN a ELSE b
Max(a, b) == IF a > b THEN a ELSE b

\* ===================================================== Inference gateway

Kinds == {"response", "feedback", "classification", "context"}

\* what one provider request can come back with
Outcomes == {"ok", "exception", "timeout", "rejected", "empty", "malformed"}
FailureOutcomes == Outcomes \ {"ok"}

\* Config.*_PROVIDER / *_MODEL routing table
get_pipeline_config(kind) ==
    IF kind = "response" THEN
        [primary_provider |-> "openai", primary_model |-> "gpt-4o-mini",
         fallback_provider |-> "anthropic", fallback_model |-> "claude-3-haiku-latest"]
    ELSE IF kind = "feedback" THEN
        [primary_provider |-> "openai", primary_model |-> "gpt-5-mini",
         fallback_provider |-> "anthropic", fallback_model |-> "claude-3-5-sonnet-latest"]
    ELSE
        [primary_provider |-> "openai", primary_model |-> "gpt-4o-mini",
         fallback_provider |-> "openai", fallback_model |-> "gpt-4o-mini"]

\* the text a provider produces on success names who produced it
ModelText(provider, model) == "text:" \o provider \o ":" \o model

\* an oracle fixes what the i-th provider request of one call_llm comes back with
MaxRequests == LLM_MAX_RETRIES + 3
Oracles == [1..MaxRequests -> Outcomes]

IsGpt5(model) == model = "gpt-5-mini"

\* _invoke_openai_chat_standard / _invoke_openai_gpt4o_new: one request, an
\* empty or missing content raises
invoke_openai_chat(model, oracle, k) ==
    IF oracle[k] = "ok"
    THEN [raised |-> FALSE, text |-> ModelText("openai", model), outcomes |-> <<oracle[k]>>]
    ELSE [raised |-> TRUE, text |-> "", outcomes |-> <<oracle[k]>>]

\* _invoke_openai_gpt5: for feedback the request carries the reasoning
\* parameter; when it is rejected the request is sent again without it
invoke_openai_gpt5(model, kind, oracle, k) ==
    IF oracle[k] = "ok"
    THEN [raised |-> FALSE, text |-> ModelText("openai", model), outcomes |-> <<oracle[k]>>]
    ELSE IF kind = "feedback" /\ oracle[k] = "rejected"
    THEN IF oracle[k + 1] = "ok"
         THEN [raised |-> FALSE, text |-> ModelText("openai", model),
               outcomes |-> <<oracle[k], oracle[k + 1]>>]
         ELSE [raised |-> TRUE, text |-> "", outcomes |-> <<oracle[k], oracle[k + 1]>>]
    ELSE [raised |-> TRUE, text |-> "", outcomes |-> <<oracle[k]>>]

\* _invoke_openai: routing by model family
invoke_openai(model, kind, oracle, k) ==
    IF IsGpt5(model) THEN invoke_openai_gpt5(model, kind, oracle, k)
    ELSE invoke_openai_chat(model, oracle, k)

\* _invoke_anthropic: content[0]['text'].strip() is returned as it is,
\* only a missing content block raises
invoke_anthropic(model, oracle, k) ==
    IF oracle[k] = "ok"
    THEN [raised |-> FALSE, text |-> ModelText("anthropic", model), outcomes |-> <<oracle[k]>>]
    ELSE IF oracle[k] = "empty"
    THEN [raised |-> FALSE, text |-> "", outcomes |-> <<oracle[k]>>]
    ELSE [raised |-> TRUE, text |-> "", outcomes |-> <<oracle[k]>>]

invoke(provider, model, kind, oracle, k) ==
    IF provider = "openai" THEN invoke_openai(model, kind, oracle, k)
    ELSE IF provider = "anthropic" THEN invoke_anthropic(model, oracle, k)
    ELSE [raised |-> TRUE, text |-> "", outcomes |-> <<>>]

\* retries = 0 if kind == 'feedback' else LLM_MAX_RETRIES
retries_mut_more(kind) == IF kind = "feedback" THEN 0 ELSE LLM_MAX_RETRIES + 1
retries(kind) == IF kind = "feedback" THEN 0 ELSE LLM_MAX_RETRIES

\* the log of one _invoke: one record per request sent; a request that was
\* sent again, or whose _invoke raised, counts as raised
CallRec(route, provider, model, attempt, r) ==
    [i \in 1..Len(r.outcomes) |->
        [route |-> route, provider |-> provider, model |-> model,
         outcome |-> r.outcomes[i], attempt |-> attempt,
         raised |-> (i < Len(r.outcomes) \/ r.raised)]]

\* the fallback block of call_llm: one _invoke, its exception becomes ERROR_TEXT
call_llm_fallback_mut_primary(kind, oracle, calls) ==
    LET cfg == get_pipeline_config(kind)
        r == invoke(cfg.primary_provider, cfg.primary_model, kind, oracle, Len(calls) + 1)
        calls2 == calls \o CallRec("fallback", cfg.fallback_provider, cfg.fallback_model, 0, r)
    IN  IF r.raised
        THEN [text |-> ERROR_TEXT, calls |-> calls2, raised |-> FALSE]
        ELSE [text |-> r.text, calls |-> calls2, raised |-> FALSE]
call_llm_fallback(kind, oracle, calls) ==
    LET cfg == get_pipeline_config(kind)
        r == invoke(cfg.fallback_provider, cfg.fallback_model, kind, oracle, Len(calls) + 1)
        calls2 == calls \o CallRec("fallback", cfg.fallback_provider, cfg.fallback_model, 0, r)
    IN  IF r.raised
        THEN [text |-> ERROR_TEXT, calls |-> calls2, raised |-> FALSE]
        ELSE [text |-> r.text, calls |-> calls2, raised |-> FALSE]

\* the for-loop over the primary route
RECURSIVE call_llm_primary(_, _, _, _)
call_llm_primary(kind, oracle, attempt, calls) ==
    IF attempt > retries(kind)
    THEN call_llm_fallback(kind, oracle, calls)
    ELSE LET cfg == get_pipeline_config(kind)
             r == invoke(cfg.primary_provider, cfg.primary_model, kind, oracle, Len(calls) + 1)
             calls2 == calls \o CallRec("primary", cfg.primary_provider, cfg.primary_model,
                                        attempt + 1, r)
         IN  IF r.raised
             THEN call_llm_primary(kind, oracle, attempt + 1, calls2)
             ELSE [text |-> r.text, calls |-> calls2, raised |-> FALSE]

call_llm(kind, oracle) ==
    IF kind \notin Kinds
    THEN [text |-> "", calls |-> <<>>, raised |-> TRUE]
    ELSE call_llm_primary(kind, oracle, 0, <<>>)

IsModelText(t) == t # "" /\ t # ERROR_TEXT


\* ===================================================== Scenario

\* question types the scenario declares, with the clarity weight of each
QuestionTypeIds == {"situational", "problem", "implication", "need_payoff"}
TypeWeight == [t \in QuestionTypeIds |->
    CASE t = "situational" -> 10
      [] t = "problem" -> 20
      [] t = "implication" -> 30
      [] t = "need_payoff" -> 40]

\* labels the classifier is driven with; "unknown" is a label outside the set
ClassifierLabels == {"situational", "need_payoff", "unknown"}

\* ranking.levels of the scenario
Levels == << [level |-> 1, min_xp |-> 0], [level |-> 2, min_xp |-> 50],
             [level |-> 3, min_xp |-> 150] >>

\* achievements.list of the scenario: id and condition over the eval context
AchievementIds == << "first_training", "active_listener" >>
AchievementCondition(id, ctx) ==
    IF id = "first_training" THEN ctx.total_trainings >= 1
    ELSE ctx.contextual_questions >= 1

\* case_variants of the scenario; a case is identified by its hash
NoCase == "none"
Cases == {"case_a", "case_b"}

\* ===================================================== Inputs

\* message texts: the two start words (the second one is short), the feedback
\* word, a short text, the finish word and a question
Messages == {"nachat", "start", "da", "ok?", "zavershit", "what is your budget?"}
lower(m) == m
upper(m) == IF m = "da" THEN "DA" ELSE m
len(m) == CASE m = "nachat" -> 6 [] m = "start" -> 5 [] m = "da" -> 2
            [] m = "ok?" -> 3 [] m = "zavershit" -> 9 [] OTHER -> 20
StartWords == {"nachat", "start"}

AllOk == [i \in 1..MaxRequests |-> "ok"]
AllFail == [i \in 1..MaxRequests |-> "exception"]
PrimaryDown == [i \in 1..MaxRequests |-> IF i <= LLM_MAX_RETRIES + 1 THEN "timeout" ELSE "ok"]
SessionOracles == {AllOk, AllFail, PrimaryDown}

\* ===================================================== Session and stats

\* session.get('feedback_cache') of a session that has no such key
NoCache == [prompt_hash |-> <<>>, ts |-> 0, text |-> ""]

\* BotSession.get_default_session
get_default_session ==
    [question_count |-> 0, clarity_level |-> 0, per_type_counts |-> <<>>,
     client_case |-> "", case_data |-> NoCase, last_question_type |-> "",
     chat_state |-> "new", contextual_questions |-> 0,
     last_client_response |-> "", feedback_in_progress |-> FALSE,
     last_feedback_ts |-> 0, feedback_cache |-> NoCache]

\* BotSession.get_default_stats (last_training_date, a date string no handler reads, is left out)
get_default_stats ==
    [total_trainings |-> 0, total_questions |-> 0, best_score |-> 0,
     total_xp |-> 0, current_level |-> 1, achievements_unlocked |-> <<>>,
     level_up_notification |-> [should_show |-> FALSE, old_level |-> 1, new_level |-> 1],
     maestro_streak |-> 0, recent_cases |-> <<>>]

\* dict.get(key, 0) on per_type_counts
Get(f, k) == IF k \in DOMAIN f THEN f[k] ELSE 0

SeqToSet(s) == {s[i] : i \in DOMAIN s}


\* ===================================================== Training service

\* QuestionAnalyzer.classify_question: one classification request; a label of
\* the declared set selects the type, anything else propagates as an exception
classify_question(label, oracle) ==
    LET r == call_llm("classification", oracle)
    IN  IF IsModelText(r.text) /\ label \in QuestionTypeIds
        THEN [raised |-> FALSE, qid |-> label]
        ELSE [raised |-> TRUE, qid |-> ""]

\* QuestionAnalyzer.calculate_clarity_increase
calculate_clarity_increase(qid) == TypeWeight[qid]

\* QuestionAnalyzer.calculate_score: weighted sum of the per-type counts
calculate_score(session) ==
    Get(session.per_type_counts, "situational") * TypeWeight["situational"]
    + Get(session.per_type_counts, "problem") * TypeWeight["problem"]
    + Get(session.per_type_counts, "implication") * TypeWeight["implication"]
    + Get(session.per_type_counts, "need_payoff") * TypeWeight["need_payoff"]

\* ActiveListeningDetector.check_context_usage with enabled, use_llm and
\* llm_fallback set: the LLM verdict first, the heuristic when it is unusable
check_context_usage(q, last_response) ==
    IF last_response = ""
    THEN [result |-> FALSE, llm_calls |-> 0]
    ELSE LET r == call_llm("context", q.o_context)
             label == IF IsModelText(r.text) THEN q.llm_verdict ELSE "unclear"
         IN  [result |-> IF label = "yes" THEN TRUE
                         ELSE IF label = "no" THEN FALSE
                         ELSE q.heuristic,
              llm_calls |-> 1]

\* BaseTrainingService.check_active_listening
check_active_listening(q, last_response) ==
    IF last_response # ""
    THEN check_context_usage(q, last_response)
    ELSE [result |-> FALSE, llm_calls |-> 0]

\* BaseTrainingService.apply_active_listening_bonus
apply_active_listening_bonus_mut_noclamp(session, is_contextual) ==
    IF is_contextual
    THEN [session EXCEPT !.contextual_questions = @ + 1,
                         !.clarity_level = @ + bonus_points]
    ELSE session
apply_active_listening_bonus(session, is_contextual) ==
    IF is_contextual
    THEN [session EXCEPT !.contextual_questions = @ + 1,
                         !.clarity_level = Min(clarity_cap, @ + bonus_points)]
    ELSE session

\* the counter updates of process_question
update_counters_mut_twice(session, qid) ==
    [session EXCEPT
        !.question_count = @ + 2,
        !.last_question_type = qid,
        !.per_type_counts = [k \in (DOMAIN @) \cup {qid} |->
                                IF k = qid THEN Get(@, qid) + 1 ELSE @[k]],
        !.clarity_level = Min(@ + calculate_clarity_increase(qid), clarity_cap)]
update_counters_mut_notype(session, qid) ==
    [session EXCEPT
        !.question_count = @ + 1,
        !.last_question_type = qid,
        !.clarity_level = Min(@ + calculate_clarity_increase(qid), clarity_cap)]
update_counters(session, qid) ==
    [session EXCEPT
        !.question_count = @ + 1,
        !.last_question_type = qid,
        !.per_type_counts = [k \in (DOMAIN @) \cup {qid} |->
                                IF k = qid THEN Get(@, qid) + 1 ELSE @[k]],
        !.clarity_level = Min(@ + calculate_clarity_increase(qid), clarity_cap)]

\* SpinTrainingService.process_question on the session loaded from storage;
\* the session is saved only when nothing raised
process_question(session, q) ==
    LET c == classify_question(q.label, q.o_classify)
    IN  IF c.raised
        THEN [raised |-> TRUE, session |-> session, llm_calls |-> 1,
              last_resp |-> "", is_contextual |-> FALSE]
        ELSE LET s1 == update_counters(session, c.qid)
                 resp == call_llm("response", q.o_response)
                 al == check_active_listening(q, s1.last_client_response)
                 s2 == apply_active_listening_bonus(s1, al.result)
                 s3 == [s2 EXCEPT !.last_client_response = resp.text]
             IN  [raised |-> FALSE, session |-> s3, llm_calls |-> 2 + al.llm_calls,
                  last_resp |-> s1.last_client_response, is_contextual |-> al.result]

\* BaseTrainingService.check_training_completion
check_training_completion_mut_order(session) ==
    IF session.clarity_level >= target_clarity
       /\ session.question_count >= min_questions_for_completion
    THEN [done |-> TRUE, reason |-> "clarity_reached"]
    ELSE IF session.question_count >= max_questions
    THEN [done |-> TRUE, reason |-> "max_questions"]
    ELSE [done |-> FALSE, reason |-> ""]
check_training_completion_mut_or(session) ==
    IF session.question_count >= max_questions
    THEN [done |-> TRUE, reason |-> "max_questions"]
    ELSE IF session.clarity_level >= target_clarity
            \/ session.question_count >= min_questions_for_completion
    THEN [done |-> TRUE, reason |-> "clarity_reached"]
    ELSE [done |-> FALSE, reason |-> ""]
check_training_completion(session) ==
    IF session.question_count >= max_questions
    THEN [done |-> TRUE, reason |-> "max_questions"]
    ELSE IF session.clarity_level >= target_clarity
            /\ session.question_count >= min_questions_for_completion
    THEN [done |-> TRUE, reason |-> "clarity_reached"]
    ELSE [done |-> FALSE, reason |-> ""]

\* UserServiceDB.reset_session: a fresh session, the stats written back as read
reset_session_mut_stats(session, stats) ==
    [session |->
        [question_count |-> 0, clarity_level |-> 0,
         per_type_counts |-> [t \in QuestionTypeIds |-> 0],
         client_case |-> "", case_data |-> NoCase, last_question_type |-> "",
         chat_state |-> "waiting_start", contextual_questions |-> 0,
         last_client_response |-> "", feedback_in_progress |-> FALSE,
         last_feedback_ts |-> 0, feedback_cache |-> NoCache],
     stats |-> [get_default_stats EXCEPT !.total_trainings = stats.total_trainings]]
reset_session_mut_keep(session, stats) ==
    [session |-> [session EXCEPT !.chat_state = "waiting_start"], stats |-> stats]
reset_session(session, stats) ==
    [session |->
        [question_count |-> 0, clarity_level |-> 0,
         per_type_counts |-> [t \in QuestionTypeIds |-> 0],
         client_case |-> "", case_data |-> NoCase, last_question_type |-> "",
         chat_state |-> "waiting_start", contextual_questions |-> 0,
         last_client_response |-> "", feedback_in_progress |-> FALSE,
         last_feedback_ts |-> 0, feedback_cache |-> NoCache],
     stats |-> stats]

\* DatabaseService._calculate_level
RECURSIVE MaxEligible(_, _, _)
MaxEligible(xp, i, best) ==
    IF i > Len(Levels) THEN best
    ELSE MaxEligible(xp, i + 1,
            IF xp >= Levels[i].min_xp /\ Levels[i].level > best
            THEN Levels[i].level ELSE best)
calculate_level(xp) ==
    IF Len(Levels) = 0 THEN Min(xp \div 100 + 1, 100)
    ELSE IF \E i \in DOMAIN Levels : xp >= Levels[i].min_xp
    THEN MaxEligible(xp, 1, 0)
    ELSE 1

\* the levels of a list that xp is enough for
eligible(xp, levels) ==
    { levels[i].level : i \in { i \in DOMAIN levels : xp >= levels[i].min_xp } }
SetMax(S) == CHOOSE x \in S : \A y \in S : y <= x

\* AchievementService.calculate_level with the list of levels as argument
AchievementService_calculate_level(xp, levels) ==
    IF eligible(xp, levels) # {} THEN SetMax(eligible(xp, levels)) ELSE 1
\* DatabaseService._calculate_level with the list of levels as argument
DatabaseService_calculate_level(xp, levels) ==
    IF levels = <<>> THEN Min(xp \div 100 + 1, 100)
    ELSE IF eligible(xp, levels) # {} THEN SetMax(eligible(xp, levels)) ELSE 1
\* UserService._calculate_level with the list of levels as argument
UserService_calculate_level(xp, levels) ==
    IF eligible(xp, levels) # {} THEN SetMax(eligible(xp, levels)) ELSE 1

\* DatabaseService.add_xp_and_check_level_up on the users row
add_xp_and_check_level_up(user, xp_to_add) ==
    LET new_xp == user.total_xp + xp_to_add
        new_level == calculate_level(new_xp)
    IN  [user |-> [total_xp |-> new_xp,
                   level |-> IF new_level > user.level THEN new_level ELSE user.level],
         new_level |-> new_level]

\* UserServiceDB.update_stats
update_stats_mut_best(session, stats, user, session_score) ==
    LET old_level == stats.current_level
        lr == add_xp_and_check_level_up(user, session_score)
        st == [stats EXCEPT
                !.total_trainings = @ + 1,
                !.total_questions = @ + session.question_count,
                !.best_score = session_score,
                !.total_xp = @ + session_score,
                !.current_level = lr.new_level,
                !.maestro_streak = IF session_score >= 221 THEN @ + 1 ELSE 0,
                !.level_up_notification =
                    IF lr.new_level > old_level
                    THEN [should_show |-> TRUE, old_level |-> old_level,
                          new_level |-> lr.new_level]
                    ELSE @]
        \* update_user_stats_after_training adds the XP to the users row again
        lr2 == add_xp_and_check_level_up(lr.user, session_score)
    IN  [stats |-> st, user |-> lr2.user]
update_stats(session, stats, user, session_score) ==
    LET old_level == stats.current_level
        lr == add_xp_and_check_level_up(user, session_score)
        st == [stats EXCEPT
                !.total_trainings = @ + 1,
                !.total_questions = @ + session.question_count,
                !.best_score = Max(@, session_score),
                !.total_xp = @ + session_score,
                !.current_level = lr.new_level,
                !.maestro_streak = IF session_score >= 221 THEN @ + 1 ELSE 0,
                !.level_up_notification =
                    IF lr.new_level > old_level
                    THEN [should_show |-> TRUE, old_level |-> old_level,
                          new_level |-> lr.new_level]
                    ELSE @]
        \* update_user_stats_after_training adds the XP to the users row again
        lr2 == add_xp_and_check_level_up(lr.user, session_score)
    IN  [stats |-> st, user |-> lr2.user]

\* AchievementService.check_achievements
RECURSIVE check_achievements_from(_, _, _, _)
check_achievements_from(i, ctx, unlocked, newly) ==
    IF i > Len(AchievementIds)
    THEN [unlocked |-> unlocked, newly |-> newly]
    ELSE LET id == AchievementIds[i]
         IN  IF id \in SeqToSet(unlocked)
             THEN check_achievements_from(i + 1, ctx, unlocked, newly)
             ELSE IF AchievementCondition(id, ctx)
             THEN check_achievements_from(i + 1, ctx, Append(unlocked, id), Append(newly, id))
             ELSE check_achievements_from(i + 1, ctx, unlocked, newly)
check_achievements_mut_noskip(session, stats) ==
    LET ctx == [total_trainings |-> stats.total_trainings,
                question_count |-> session.question_count,
                contextual_questions |-> session.contextual_questions]
        r == check_achievements_from(1, ctx, <<>>, <<>>)
    IN  [stats |-> [stats EXCEPT !.achievements_unlocked = @ \o r.newly],
         newly |-> r.newly]
check_achievements(session, stats) ==
    LET ctx == [total_trainings |-> stats.total_trainings,
                question_count |-> session.question_count,
                contextual_questions |-> session.contextual_questions]
        r == check_achievements_from(1, ctx, stats.achievements_unlocked, <<>>)
    IN  [stats |-> [stats EXCEPT !.achievements_unlocked = r.unlocked],
         newly |-> r.newly]

\* SpinTrainingService.complete_training: score, stats, achievements, reset
complete_training(session, stats, user) ==
    LET total_score == calculate_score(session)
        u == update_stats(session, stats, user, total_score)
        a == check_achievements(session, u.stats)
        persisted == IF a.newly # <<>> \/ u.stats.level_up_notification.should_show
                     THEN a.stats ELSE u.stats
        r == reset_session(session, persisted)
    IN  [session |-> r.session, stats |-> r.stats, user |-> u.user,
         stats_before_reset |-> persisted, total_score |-> total_score,
         updated |-> u.stats, newly |-> a.newly]

\* CaseGenerator.generate_random_case(exclude_recent): a case not used recently
\* when there is one
CaseCandidates(recent) ==
    IF Cases \ SeqToSet(recent) # {} THEN Cases \ SeqToSet(recent) ELSE Cases

\* SpinTrainingService.start_training with the generated case
start_training_mut_newest(session, stats, case) ==
    LET appended == Append(stats.recent_cases, case)
        recent == IF Len(appended) > recent_cases_limit THEN SubSeq(appended, 1, recent_cases_limit) ELSE appended
    IN  [session |-> [session EXCEPT !.case_data = case, !.client_case = case,
                                     !.chat_state = "training_active"],
         stats |-> [stats EXCEPT !.recent_cases = recent]]
start_training(session, stats, case) ==
    LET appended == Append(stats.recent_cases, case)
        recent == IF Len(appended) > recent_cases_limit THEN Tail(appended) ELSE appended
    IN  [session |-> [session EXCEPT !.case_data = case, !.client_case = case,
                                     !.chat_state = "training_active"],
         stats |-> [stats EXCEPT !.recent_cases = recent]]

\* SpinTrainingService.build_feedback_prompt: the prompt is a function of these
\* session fields, and its sha256 is modelled by the fields themselves
build_feedback_prompt(session) ==
    <<session.last_question_type, session.question_count, session.clarity_level,
      session.per_type_counts>>

\* BaseTrainingService._format_feedback_message: the feedback text under a
\* heading
format_feedback_message(feedback) == "feedback: " \o feedback

\* BaseTrainingService.get_feedback on a session loaded from storage: a cache
\* hit returns the cached text, a miss calls the gateway and writes the cache
\* slot of that loaded copy, which get_feedback does not save
get_feedback_mut_nottl(session, oracle, t) ==
    IF session.last_question_type = ""
    THEN [text |-> FEEDBACK_FIRST_ASK, message |-> FEEDBACK_FIRST_ASK,
          llm_calls |-> 0, session |-> session]
    ELSE LET prompt_hash == build_feedback_prompt(session)
             cache == session.feedback_cache
         IN  IF cache.prompt_hash = prompt_hash /\ cache.text # ""
             THEN [text |-> cache.text, message |-> format_feedback_message(cache.text),
                   llm_calls |-> 0, session |-> session]
             ELSE LET feedback == call_llm("feedback", oracle).text
                  IN  [text |-> feedback, message |-> format_feedback_message(feedback),
                       llm_calls |-> 1,
                       session |-> [session EXCEPT !.feedback_cache =
                           [prompt_hash |-> prompt_hash, ts |-> t, text |-> feedback]]]
get_feedback(session, oracle, t) ==
    IF session.last_question_type = ""
    THEN [text |-> FEEDBACK_FIRST_ASK, message |-> FEEDBACK_FIRST_ASK,
          llm_calls |-> 0, session |-> session]
    ELSE LET prompt_hash == build_feedback_prompt(session)
             cache == session.feedback_cache
         IN  IF cache.prompt_hash = prompt_hash /\ (t - cache.ts) < ttl_sec
                /\ cache.text # ""
             THEN [text |-> cache.text, message |-> format_feedback_message(cache.text),
                   llm_calls |-> 0, session |-> session]
             ELSE LET feedback == call_llm("feedback", oracle).text
                  IN  [text |-> feedback, message |-> format_feedback_message(feedback),
                       llm_calls |-> 1,
                       session |-> [session EXCEPT !.feedback_cache =
                           [prompt_hash |-> prompt_hash, ts |-> t, text |-> feedback]]]

\* LLMService.stream_feedback: raises for the configured feedback model
stream_feedback_raises ==
    LET cfg == get_pipeline_config("feedback")
    IN  cfg.primary_provider = "openai" /\ cfg.primary_model = "gpt-5-mini"


\* what the streaming request can do once it has been sent
StreamOutcomes == {"ok", "error_before", "error_mid", "empty"}
NoStream == [raised |-> FALSE, text |-> "", requests |-> 0]

\* LLMService.stream_feedback as the handler sees it: whether it raised, the
\* chunks joined so far and the number of requests sent
stream_feedback(stream) ==
    LET cfg == get_pipeline_config("feedback")
    IN  IF cfg.primary_provider = "openai" /\ IsGpt5(cfg.primary_model)
        THEN [raised |-> TRUE, text |-> "", requests |-> 0]
        ELSE IF stream = "ok"
        THEN [raised |-> FALSE, requests |-> 1,
              text |-> ModelText(cfg.primary_provider, cfg.primary_model)]
        ELSE IF stream = "error_mid"
        THEN [raised |-> TRUE, text |-> "partial", requests |-> 1]
        ELSE IF stream = "empty"
        THEN [raised |-> FALSE, text |-> "", requests |-> 1]
        ELSE [raised |-> TRUE, text |-> "", requests |-> 1]

\* the streaming attempt of the feedback branch and its except block: a stream
\* that raised or produced nothing is followed by get_feedback, whose text
\* replaces what the message showed
generate_feedback_mut_partial(stored, oracle, stream, t) ==
    LET st == stream_feedback(stream)
        fb == get_feedback(stored, oracle, t)
    IN  [stream |-> st, shown |-> st.text,
         nonstream |-> IF st.raised \/ st.text = "" THEN fb.text ELSE "",
         reissued |-> IF st.raised \/ st.text = "" THEN 1 ELSE 0,
         llm_calls |-> st.requests + (IF st.raised \/ st.text = "" THEN fb.llm_calls ELSE 0)]
generate_feedback(stored, oracle, stream, t) ==
    LET st == stream_feedback(stream)
    IN  IF st.raised \/ st.text = ""
        THEN LET fb == get_feedback(stored, oracle, t)
             IN  [stream |-> st, shown |-> fb.text, nonstream |-> fb.text,
                  reissued |-> 1, llm_calls |-> st.requests + fb.llm_calls]
        ELSE [stream |-> st, shown |-> st.text, nonstream |-> "",
              reissued |-> 0, llm_calls |-> st.requests]

\* the finally block of the feedback branch, applied to the handler's session
feedback_finally_mut_nostamp(session, t) ==
    [session EXCEPT !.feedback_in_progress = FALSE]
feedback_finally(session, t) ==
    [session EXCEPT !.feedback_in_progress = FALSE, !.last_feedback_ts = t]

\* the anti-duplicate guard of the feedback branch
FeedbackRejected_mut_flag(session, t) == session.feedback_in_progress
FeedbackRejected(session, t) ==
    session.feedback_in_progress \/ (t - session.last_feedback_ts) < cooldown_sec


\* ===================================================== Active listening detector

\* texts are sequences of one-character strings
Digits == {"0", "1", "2", "3", "4", "5", "6", "7", "8", "9"}
Letters == {"a", "b", "c", "d", "e", "k", "n", "o", "r", "s", "u", "w", "y"}
IsDigit(c) == c \in Digits
\* the class [\d\s.,] of the number pattern
IsNumChar(c) == c \in Digits \cup {" ", ",", "."}
\* the class \w
IsWordChar(c) == c \in Digits \cup Letters

\* \b between position e and position e + 1 of s
Boundary(s, e) ==
    LET W(k) == k \in 1..Len(s) /\ IsWordChar(s[k])
    IN  W(e) # W(e + 1)

\* the end of the longest run of [\d\s.,] characters that starts at i
RECURSIVE NumRunEnd(_, _)
NumRunEnd(s, i) ==
    IF i < Len(s) /\ IsNumChar(s[i + 1]) THEN NumRunEnd(s, i + 1) ELSE i

\* the end of the match of \b\d+[\d\s.,]*\b that starts at i, 0 when there is
\* none: the greedy run, given back up to the last \b
NumberMatchEnd(s, i) ==
    IF IsDigit(s[i]) /\ Boundary(s, i - 1)
    THEN LET ends == {e \in i..NumRunEnd(s, i) : Boundary(s, e)}
         IN  IF ends = {} THEN 0 ELSE CHOOSE e \in ends : \A f \in ends : f <= e
    ELSE 0

\* re.findall(r"\b\d+[\d\s.,]*\b", s) from position i on
RECURSIVE find_numbers(_, _)
find_numbers(s, i) ==
    IF i > Len(s) THEN <<>>
    ELSE LET e == NumberMatchEnd(s, i)
         IN  IF e = 0 THEN find_numbers(s, i + 1)
             ELSE <<SubSeq(s, i, e)>> \o find_numbers(s, e + 1)

\* str.strip()
RECURSIVE strip(_)
strip(s) ==
    IF s = <<>> THEN s
    ELSE IF Head(s) = " " THEN strip(Tail(s))
    ELSE IF s[Len(s)] = " " THEN strip(SubSeq(s, 1, Len(s) - 1))
    ELSE s

\* sub in q
Contains(q, sub) ==
    \E k \in 1..(Len(q) - Len(sub) + 1) : SubSeq(q, k, k + Len(sub) - 1) = sub

\* the marker phrases of ActiveListeningConfig, in the alphabet of the model
context_markers == { <<"a", "s">> }
stop_words == { <<"a", "n", "d">>, <<"o", "n", "e">> }

\* re.findall(r'\b\w{4,}\b', s) without the stop words
meaningful_words(s) ==
    { w \in { SubSeq(s, i, j) : i \in 1..Len(s), j \in 1..Len(s) } :
        /\ Len(w) >= 4
        /\ \A k \in 1..Len(w) : IsWordChar(w[k])
        /\ \E i \in 1..Len(s) : /\ i + Len(w) - 1 <= Len(s)
                                /\ SubSeq(s, i, i + Len(w) - 1) = w
                                /\ Boundary(s, i - 1)
                                /\ Boundary(s, i + Len(w) - 1) } \ stop_words

\* rule 1: a number of the response inside the question
heuristic_numbers(question, last_response) ==
    \E n \in SeqToSet(find_numbers(last_response, 1)) :
        strip(n) # <<>> /\ Contains(question, strip(n))
\* rule 2: a marker phrase inside the question
heuristic_markers(question) ==
    \E m \in context_markers : Contains(question, m)
\* rule 3: at least 3 common meaningful words
heuristic_words(question, last_response) ==
    Cardinality(meaningful_words(last_response) \cap meaningful_words(question)) >= 3

\* ActiveListeningDetector._check_with_heuristic
check_with_heuristic(question, last_response) ==
    \/ heuristic_numbers(question, last_response)
    \/ heuristic_markers(question)
    \/ heuristic_words(question, last_response)

\* what the call of the context kind gives the detector: an exception or a text
LlmRaised == [raised |-> TRUE, raw |-> <<>>]
LlmSaid(raw) == [raised |-> FALSE, raw |-> raw]

\* ActiveListeningDetector._check_with_llm: "yes", "no" or "none"
check_with_llm(reply) ==
    IF reply.raised THEN "none"
    ELSE LET label == strip(reply.raw)
             has_yes == Contains(label, <<"y", "e", "s">>)
             has_no == Contains(label, <<"n", "o">>)
         IN  IF has_yes /\ ~has_no THEN "yes"
             ELSE IF has_no THEN "no"
             ELSE "none"

\* ActiveListeningDetector.check_context_usage; consulted tells whether the
\* call of the context kind was made. _check_with_llm catches every exception
\* itself, so the llm_fallback branch of the outer except is never taken
detector_check(config, question, last_response, reply) ==
    IF ~config.enabled \/ last_response = <<>>
    THEN [result |-> FALSE, consulted |-> FALSE]
    ELSE IF config.use_llm /\ check_with_llm(reply) # "none"
    THEN [result |-> check_with_llm(reply) = "yes", consulted |-> TRUE]
    ELSE [result |-> check_with_heuristic(question, last_response),
          consulted |-> config.use_llm]

\* ===================================================== State

VARIABLES
    db_session,   \* bot_sessions.session_data of the user
    db_stats,     \* bot_sessions.stats_data of the user
    db_user,      \* the users row: total_xp and level
    now,          \* time.time()
    ev,           \* what the last handler did
    llm,          \* one call_llm invocation: kind, oracle, result
    cc,           \* one check_training_completion invocation
    tasks,        \* handle_message invocations taken step by step
    fb_log,       \* the last feedback generation: prompt hash, time, text, calls
    unit          \* one invocation of a function on its own: name, arguments, result

vars == <<db_session, db_stats, db_user, now, ev, llm, cc, tasks, fb_log, unit>>

NoCheck == [done |-> FALSE, reason |-> ""]

TaskIds == 1..MaxTasks
IdleTask == [pc |-> "idle", kind |-> "", session |-> get_default_session,
             rejected |-> FALSE, stream |-> NoStream, shown |-> "",
             nonstream |-> "", reissued |-> 0, llm_calls |-> 0]
NoUnit == [pc |-> "idle"]
NoFeedback == [prompt_hash |-> <<>>, ts |-> 0, text |-> "", llm_calls |-> 0]

Ev(op, text, s, check, llm_calls, reset, sbr) ==
    [op |-> op, text |-> text, question_count |-> s.question_count,
     clarity_level |-> s.clarity_level, check |-> check,
     llm_calls |-> llm_calls, reset |-> reset, stats_before_reset |-> sbr,
     write |-> "none", is_contextual |-> FALSE]

\* the event of a processed question also tells the detector's verdict
QEv(e, p) == [e EXCEPT !.is_contextual = p.is_contextual]

Init ==
    /\ db_session = get_default_session
    /\ db_stats = get_default_stats
    /\ db_user = [total_xp |-> 0, level |-> 1]
    /\ now = cooldown_sec
    /\ ev = Ev("none", "", get_default_session, NoCheck, 0, "none", get_default_stats)
    /\ llm = [pc |-> "idle", kind |-> "", oracle |-> AllOk,
              result |-> [text |-> "", calls |-> <<>>, raised |-> FALSE]]
    /\ cc = [pc |-> "idle", question_count |-> 0, clarity_level |-> 0, result |-> NoCheck]
    /\ tasks = [t \in TaskIds |-> IdleTask]
    /\ fb_log = NoFeedback
    /\ unit = NoUnit

\* ===================================================== Handlers (bot.py)

\* the horizon of the exploration: handlers run while rounds are left
WithinHorizon == db_stats.total_trainings < MaxTrainings

\* start_command: /start overwrites the session with a literal and keeps the stats
start_command_session_mut_keepcount ==
    [question_count |-> db_session.question_count, clarity_level |-> 0,
     per_type_counts |-> [k \in {"situation", "problem", "implication", "need_payoff"} |-> 0],
     client_case |-> "", case_data |-> NoCase, last_question_type |-> "",
     chat_state |-> "waiting_start", contextual_questions |-> 0,
     last_client_response |-> "", feedback_in_progress |-> FALSE,
     last_feedback_ts |-> 0, feedback_cache |-> NoCache]
start_command_session ==
    [question_count |-> 0, clarity_level |-> 0,
     per_type_counts |-> [k \in {"situation", "problem", "implication", "need_payoff"} |-> 0],
     client_case |-> "", case_data |-> NoCase, last_question_type |-> "",
     chat_state |-> "waiting_start", contextual_questions |-> 0,
     last_client_response |-> "", feedback_in_progress |-> FALSE,
     last_feedback_ts |-> 0, feedback_cache |-> NoCache]

start_command ==
    /\ WithinHorizon
    /\ db_session' = start_command_session
    /\ db_stats' = db_stats
    /\ ev' = Ev("start_command", "/start", start_command_session, NoCheck, 0,
                "start_command", db_stats)
    /\ UNCHANGED <<db_user, now, llm, cc, tasks, fb_log, unit>>

CanStart == WithinHorizon /\ Len(db_stats.recent_cases) < MaxStarts

\* start_training_callback: the start button, in any chat_state
start_training_callback ==
    /\ CanStart
    /\ \E case \in CaseCandidates(db_stats.recent_cases) :
         LET r == start_training(db_session, db_stats, case)
         IN  /\ db_session' = r.session
             /\ db_stats' = r.stats
             /\ ev' = Ev("start_button", "", r.session, NoCheck, 0, "none", r.stats)
    /\ UNCHANGED <<db_user, now, llm, cc, tasks, fb_log, unit>>

\* the dispatch tests of handle_message, in the order of the code
InWaitingStart == db_session.chat_state = "waiting_start"
IsStartWord(text) == lower(text) \in StartWords
IsFeedbackWord(text) == upper(text) = "DA"
IsFinishWord(text) == lower(text) = "zavershit"
IsShort_mut_strict(text) == len(text) < short_question_threshold
IsShort(text) == len(text) <= short_question_threshold
AtMaxQuestions_mut_gt == db_session.question_count > max_questions
AtMaxQuestions == db_session.question_count >= max_questions

\* waiting_start and a start word: start_training
handle_message_start(text) ==
    /\ InWaitingStart
    /\ IsStartWord(text)
    /\ CanStart
    /\ \E case \in CaseCandidates(db_stats.recent_cases) :
         LET r == start_training(db_session, db_stats, case)
         IN  /\ db_session' = r.session
             /\ db_stats' = r.stats
             /\ ev' = Ev("start_text", text, r.session, NoCheck, 0, "none", r.stats)
    /\ UNCHANGED <<db_user, now, llm, cc, tasks, fb_log, unit>>

\* waiting_start and any other text: the prompt to write the start word
handle_message_waiting(text) ==
    /\ WithinHorizon
    /\ InWaitingStart
    /\ ~IsStartWord(text)
    /\ ev' = Ev("waiting_prompt", text, db_session, NoCheck, 0, "none", db_stats)
    /\ UNCHANGED <<db_session, db_stats, db_user, now, llm, cc, tasks, fb_log, unit>>

\* the feedback word: the anti-duplicate guard, the generation, and the finally
\* block that clears the flag, stamps the time and saves the handler's session
handle_message_feedback(text, oracle) ==
    /\ WithinHorizon
    /\ ~InWaitingStart
    /\ IsFeedbackWord(text)
    /\ LET rejected == FeedbackRejected(db_session, now)
           fb == IF stream_feedback_raises
                 THEN get_feedback(db_session, oracle, now)
                 ELSE [text |-> call_llm("feedback", oracle).text, llm_calls |-> 1]
           saved == feedback_finally(db_session, now)
       IN  /\ db_session' = saved
           /\ ev' = IF rejected
                    THEN Ev("feedback_rejected", text, saved, NoCheck, 0, "none", db_stats)
                    ELSE Ev("feedback", text, saved, NoCheck, fb.llm_calls, "none", db_stats)
    /\ UNCHANGED <<db_stats, db_user, now, llm, cc, tasks, fb_log, unit>>

\* the finish word: complete_training; storage_up tells whether storage answers
\* when complete_training loads the user data, its exception is caught by the
\* handler and leaves everything as it was
handle_message_finish(text, storage_up) ==
    /\ WithinHorizon
    /\ ~InWaitingStart
    /\ ~IsFeedbackWord(text)
    /\ IsFinishWord(text)
    /\ IF storage_up
       THEN \E c \in {complete_training(db_session, db_stats, db_user)} :
              /\ db_session' = c.session
              /\ db_stats' = c.stats
              /\ db_user' = c.user
              /\ ev' = Ev("finish", text, c.session, NoCheck, 0, "reset_session",
                          c.stats_before_reset)
       ELSE /\ ev' = Ev("finish", text, db_session, NoCheck, 0, "failed", db_stats)
            /\ UNCHANGED <<db_session, db_stats, db_user>>
    /\ UNCHANGED <<now, llm, cc, tasks, fb_log, unit>>

\* a text of at most short_question_threshold characters: the hint, nothing else
handle_message_short(text) ==
    /\ WithinHorizon
    /\ ~InWaitingStart
    /\ ~IsFeedbackWord(text)
    /\ ~IsFinishWord(text)
    /\ IsShort(text)
    /\ ev' = Ev("short_rejected", text, db_session, NoCheck, 0, "none", db_stats)
    /\ UNCHANGED <<db_session, db_stats, db_user, now, llm, cc, tasks, fb_log, unit>>

\* question_count already at max_questions: complete_training instead of a question
handle_message_max(text, storage_up) ==
    /\ WithinHorizon
    /\ ~InWaitingStart
    /\ ~IsFeedbackWord(text)
    /\ ~IsFinishWord(text)
    /\ ~IsShort(text)
    /\ AtMaxQuestions
    /\ IF storage_up
       THEN \E c \in {complete_training(db_session, db_stats, db_user)} :
              /\ db_session' = c.session
              /\ db_stats' = c.stats
              /\ db_user' = c.user
              /\ ev' = Ev("max_complete", text, c.session, NoCheck, 0, "reset_session",
                          c.stats_before_reset)
       ELSE /\ ev' = Ev("max_complete", text, db_session, NoCheck, 0, "failed", db_stats)
            /\ UNCHANGED <<db_session, db_stats, db_user>>
    /\ UNCHANGED <<now, llm, cc, tasks, fb_log, unit>>

\* what a question can meet: the classifier label, the detector's two verdicts
\* and the providers' behaviour for each of the three gateway calls
Q(label, heuristic, llm_verdict, o_classify, o_response, o_context) ==
    [label |-> label, heuristic |-> heuristic, llm_verdict |-> llm_verdict,
     o_classify |-> o_classify, o_response |-> o_response, o_context |-> o_context]
\* the detector's ways to a verdict: the LLM says yes, says no, or fails and
\* leaves it to the heuristic
ContextInputs == { <<"yes", FALSE, AllOk>>, <<"no", TRUE, AllOk>>,
                   <<"unclear", TRUE, AllFail>>, <<"unclear", FALSE, AllOk>> }
QuestionInputs ==
    { Q("unknown", FALSE, "unclear", AllOk, AllOk, AllOk),
      Q("situational", FALSE, "unclear", AllFail, AllOk, AllOk) }
    \cup { Q(l, c[2], c[1], AllOk, r, c[3]) :
             l \in ClassifierLabels \ {"unknown"}, r \in {AllOk, AllFail},
             c \in ContextInputs }

\* any other text: process_question, then the completion check and,
\* when it is terminal, complete_training (which fails when storage is down
\* by then, leaving the session as process_question saved it)
handle_message_question(text, q) ==
    /\ WithinHorizon
    /\ ~InWaitingStart
    /\ ~IsFeedbackWord(text)
    /\ ~IsFinishWord(text)
    /\ ~IsShort(text)
    /\ ~AtMaxQuestions
    /\ \E p \in {process_question(db_session, q)} :
         IF p.raised
         THEN /\ ev' = Ev("question_error", text, db_session, NoCheck, p.llm_calls,
                          "none", db_stats)
              /\ UNCHANGED <<db_session, db_stats, db_user>>
         ELSE \E chk \in {check_training_completion(p.session)} :
              IF chk.done
              THEN \E storage_up \in BOOLEAN :
                   IF storage_up
                   THEN \E c \in {complete_training(p.session, db_stats, db_user)} :
                        /\ db_session' = c.session
                        /\ db_stats' = c.stats
                        /\ db_user' = c.user
                        /\ ev' = QEv(Ev("question", text, p.session, chk, p.llm_calls,
                                    "reset_session", c.stats_before_reset), p)
                   ELSE /\ db_session' = p.session
                        /\ ev' = QEv(Ev("question", text, p.session, chk, p.llm_calls,
                                    "failed", db_stats), p)
                        /\ UNCHANGED <<db_stats, db_user>>
              ELSE /\ db_session' = p.session
                   /\ ev' = QEv(Ev("question", text, p.session, chk, p.llm_calls,
                               "none", db_stats), p)
                   /\ UNCHANGED <<db_stats, db_user>>
    /\ UNCHANGED <<now, llm, cc, tasks, fb_log, unit>>

Next ==
    \/ start_command
    \/ start_training_callback
    \/ \E text \in Messages : handle_message_start(text)
    \/ \E text \in Messages : handle_message_waiting(text)
    \/ \E text \in Messages, oracle \in SessionOracles : handle_message_feedback(text, oracle)
    \/ \E text \in Messages, storage_up \in BOOLEAN : handle_message_finish(text, storage_up)
    \/ \E text \in Messages : handle_message_short(text)
    \/ \E text \in Messages, storage_up \in BOOLEAN : handle_message_max(text, storage_up)
    \/ \E text \in Messages, q \in QuestionInputs : handle_message_question(text, q)

Spec == Init /\ [][Next]_vars

\* ===================================================== call_llm on its own

LLMCall(kind, oracle) ==
    /\ llm.pc = "idle"
    /\ llm' = [pc |-> "done", kind |-> kind, oracle |-> oracle,
               result |-> call_llm(kind, oracle)]
    /\ UNCHANGED <<db_session, db_stats, db_user, now, ev, cc, tasks, fb_log, unit>>

NextLLM == \E kind \in Kinds, oracle \in Oracles : LLMCall(kind, oracle)

SpecLLM == Init /\ [][NextLLM]_vars

\* ===================================================== check_training_completion on its own

MaxCheckedCount == max_questions + 2

CheckCall(qc, clarity) ==
    /\ cc.pc = "idle"
    /\ cc' = [pc |-> "done", question_count |-> qc, clarity_level |-> clarity,
              result |-> check_training_completion(
                  [get_default_session EXCEPT !.question_count = qc,
                                              !.clarity_level = clarity,
                                              !.chat_state = "training_active"])]
    /\ UNCHANGED <<db_session, db_stats, db_user, now, ev, llm, tasks, fb_log, unit>>

NextCheck == \E qc \in 0..MaxCheckedCount, clarity \in 0..clarity_cap : CheckCall(qc, clarity)

SpecCheck == Init /\ [][NextCheck]_vars


\* ===================================================== check_context_usage on its own

\* every text of 1..n characters over the alphabet
RECURSIVE TextsUpTo(_, _)
TextsUpTo(alphabet, n) ==
    IF n = 0 THEN {}
    ELSE LET shorter == TextsUpTo(alphabet, n - 1)
         IN  {<<c>> : c \in alphabet} \cup shorter
             \cup {Append(w, c) : w \in shorter, c \in alphabet}

HeuristicAlphabet == {"1", "2", ",", " ", "a", "s"}
HeuristicReplies == TextsUpTo(HeuristicAlphabet, MaxReplyLen)
HeuristicQuestions == TextsUpTo(HeuristicAlphabet, MaxQuestionLen)

\* "node band word 15"
ReplyWords ==
    <<"n","o","d","e"," ","b","a","n","d"," ","w","o","r","d"," ","1","5">>
\* "15, and word"
ReplyComma == <<"1","5",","," ","a","n","d"," ","w","o","r","d">>
\* "word band node"
QuestionWords == <<"w","o","r","d"," ","b","a","n","d"," ","n","o","d","e">>
\* "core user"
QuestionPlain == <<"c","o","r","e"," ","u","s","e","r">>
\* "user 15"
QuestionNumber == <<"u","s","e","r"," ","1","5">>
\* "as core"
QuestionMarker == <<"a","s"," ","c","o","r","e">>

DetectorReplies == {<<>>, ReplyWords, ReplyComma}
DetectorQuestions == {QuestionWords, QuestionPlain, QuestionNumber, QuestionMarker}

\* the texts the context call can come back with: yes, no, "yes or no",
\* "unsure", "unknown", the gateway's error text, nothing
LabelYes == <<"y","e","s">>
LabelNo == <<"n","o">>
LabelBoth == <<"y","e","s"," ","o","r"," ","n","o">>
LabelUnsure == <<"u","n","s","u","r","e">>
LabelUnknown == <<"u","n","k","n","o","w","n">>
LabelError == <<"e","r","r","o","r">>
LlmReplies ==
    {LlmRaised} \cup {LlmSaid(l) : l \in {LabelYes, LabelNo, LabelBoth, LabelUnsure,
                                           LabelUnknown, LabelError, <<>>}}
\* w stands in s as a whole word
HasWord(s, w) ==
    \E i \in 1..(Len(s) - Len(w) + 1) :
        /\ SubSeq(s, i, i + Len(w) - 1) = w
        /\ Boundary(s, i - 1)
        /\ Boundary(s, i + Len(w) - 1)
\* the ways the inference call of the detector fails: it raised, it returned
\* the gateway's error text, or its text has neither the word yes nor the word no
LlmFailed(reply) ==
    \/ reply.raised
    \/ reply.raw = LabelError
    \/ ~HasWord(reply.raw, LabelYes) /\ ~HasWord(reply.raw, LabelNo)

DetectorConfigs == [enabled : BOOLEAN, use_llm : BOOLEAN]
HeuristicOnly == [enabled |-> TRUE, use_llm |-> FALSE]

DetectorUnit(config, question, last_response, reply) ==
    [pc |-> "done", fn |-> "check_context_usage", config |-> config,
     question |-> question, last_response |-> last_response, reply |-> reply,
     out |-> detector_check(config, question, last_response, reply)]

\* the detector with every configuration and every answer of the context call
DetectorCall(config, question, last_response, reply) ==
    /\ unit.pc = "idle"
    /\ unit' = DetectorUnit(config, question, last_response, reply)
    /\ UNCHANGED <<db_session, db_stats, db_user, now, ev, llm, cc, tasks, fb_log>>

\* the detector in heuristic-only mode on every short text
HeuristicCall(question, last_response) ==
    /\ unit.pc = "idle"
    /\ unit' = DetectorUnit(HeuristicOnly, question, last_response, LlmRaised)
    /\ UNCHANGED <<db_session, db_stats, db_user, now, ev, llm, cc, tasks, fb_log>>

NextDetector ==
    \/ ( unit.pc = "idle" /\
         \E config \in DetectorConfigs, question \in DetectorQuestions,
            last_response \in DetectorReplies, reply \in LlmReplies :
            DetectorCall(config, question, last_response, reply) )
    \/ ( unit.pc = "idle" /\
         \E question \in HeuristicQuestions, last_response \in HeuristicReplies :
            HeuristicCall(question, last_response) )

SpecDetector == Init /\ [][NextDetector]_vars


\* ===================================================== complete_training, round after round

\* the sessions that are completed: one or two questions of one type, with or
\* without a contextual question
CompletedSessions ==
    { [get_default_session EXCEPT !.chat_state = "training_active",
                                  !.question_count = n,
                                  !.per_type_counts = [k \in {qid} |-> n],
                                  !.last_question_type = qid,
                                  !.contextual_questions = c,
                                  !.clarity_level = Min(clarity_cap,
                                        n * calculate_clarity_increase(qid) + c * bonus_points)] :
        n \in 1..2, qid \in {"situational", "need_payoff"}, c \in 0..1 }

\* the user's first round is about to be completed
CompleteBegin ==
    /\ unit.pc = "idle"
    /\ unit' = [pc |-> "rounds", fn |-> "complete_training", session |-> get_default_session,
                before |-> get_default_stats, updated |-> get_default_stats,
                stats |-> get_default_stats, user |-> [total_xp |-> 0, level |-> 1],
                total_score |-> 0, newly |-> <<>>]
    /\ UNCHANGED <<db_session, db_stats, db_user, now, ev, llm, cc, tasks, fb_log>>

\* complete_training on a session of the user whose stats are unit.stats
CompleteCall(session) ==
    /\ unit.pc = "rounds"
    /\ unit.stats.total_trainings < MaxCompletions
    /\ \E c \in {complete_training(session, unit.stats, unit.user)} :
         unit' = [pc |-> "rounds", fn |-> "complete_training", session |-> session,
                  before |-> unit.stats, updated |-> c.updated, stats |-> c.stats,
                  user |-> c.user, total_score |-> c.total_score, newly |-> c.newly]
    /\ UNCHANGED <<db_session, db_stats, db_user, now, ev, llm, cc, tasks, fb_log>>

NextComplete ==
    \/ CompleteBegin
    \/ \E session \in CompletedSessions : CompleteCall(session)

SpecComplete == Init /\ [][NextComplete]_vars


\* ===================================================== the level computations on their own

LevelImplementations == {"AchievementService", "DatabaseService", "UserService"}

\* lists of levels: none, the scenario's, one that starts above 0, one out of order
LevelLists ==
    { <<>>, Levels,
      << [level |-> 2, min_xp |-> 50], [level |-> 3, min_xp |-> 150] >>,
      << [level |-> 3, min_xp |-> 150], [level |-> 1, min_xp |-> 0],
         [level |-> 2, min_xp |-> 50] >> }

level_of(impl, xp, levels) ==
    IF impl = "AchievementService" THEN AchievementService_calculate_level(xp, levels)
    ELSE IF impl = "DatabaseService" THEN DatabaseService_calculate_level(xp, levels)
    ELSE UserService_calculate_level(xp, levels)

LevelCall(impl, xp, levels) ==
    /\ unit.pc = "idle"
    /\ unit' = [pc |-> "done", fn |-> "calculate_level", impl |-> impl, xp |-> xp,
                levels |-> levels, out |-> level_of(impl, xp, levels)]
    /\ UNCHANGED <<db_session, db_stats, db_user, now, ev, llm, cc, tasks, fb_log>>

NextLevel ==
    unit.pc = "idle" /\
    \E impl \in LevelImplementations, xp \in 0..MaxXp, levels \in LevelLists :
        LevelCall(impl, xp, levels)

SpecLevel == Init /\ [][NextLevel]_vars


\* ===================================================== start_training, start after start

\* the user is about to start the first training
StartsBegin ==
    /\ unit.pc = "idle"
    /\ unit' = [pc |-> "starts", fn |-> "start_training", stats |-> get_default_stats,
                session |-> get_default_session, used |-> <<>>]
    /\ UNCHANGED <<db_session, db_stats, db_user, now, ev, llm, cc, tasks, fb_log>>

\* start_training with the case the generator picked; used is the list of all
\* cases started so far
StartCall ==
    /\ unit.pc = "starts"
    /\ Len(unit.used) < MaxStartCalls
    /\ \E case \in CaseCandidates(unit.stats.recent_cases) :
         \E r \in {start_training(unit.session, unit.stats, case)} :
            unit' = [unit EXCEPT !.stats = r.stats, !.session = r.session,
                                 !.used = Append(@, case)]
    /\ UNCHANGED <<db_session, db_stats, db_user, now, ev, llm, cc, tasks, fb_log>>

NextStarts == StartsBegin \/ StartCall

SpecStarts == Init /\ [][NextStarts]_vars


\* ===================================================== get_feedback on its own

CachedText == "cached feedback"

\* sessions with a last question, after one or two questions
AskedSessions ==
    { [get_default_session EXCEPT !.chat_state = "training_active",
                                  !.question_count = n,
                                  !.per_type_counts = [k \in {"need_payoff"} |-> n],
                                  !.last_question_type = "need_payoff",
                                  !.clarity_level = Min(clarity_cap,
                                        n * calculate_clarity_increase("need_payoff"))] :
        n \in 1..2 }

\* the moments a cache entry was written at and the ages it is read at
CacheStamps == {0, 100}
CacheAges == {0, 1, ttl_sec - 1, ttl_sec, ttl_sec + 1}

\* what the cache slot can hold: nothing, or an entry written for one of the
\* sessions at one of the moments
CacheSlots ==
    {NoCache} \cup
    { [prompt_hash |-> build_feedback_prompt(s), ts |-> ts, text |-> CachedText] :
        s \in AskedSessions, ts \in CacheStamps }

FeedbackCall(session, cache, age, oracle) ==
    /\ unit.pc = "idle"
    /\ LET s == [session EXCEPT !.feedback_cache = cache]
           t == cache.ts + age
       IN  unit' = [pc |-> "done", fn |-> "get_feedback", session |-> s, t |-> t,
                    oracle |-> oracle, out |-> get_feedback(s, oracle, t)]
    /\ UNCHANGED <<db_session, db_stats, db_user, now, ev, llm, cc, tasks, fb_log>>

NextFeedback ==
    unit.pc = "idle" /\
    \E session \in AskedSessions, cache \in CacheSlots, age \in CacheAges,
       oracle \in SessionOracles :
        FeedbackCall(session, cache, age, oracle)

SpecFeedback == Init /\ [][NextFeedback]_vars


\* ===================================================== free trainings (payments)

\* payments/config.py
FREE_TRAININGS_FOR_SUBSCRIPTION == 2

\* the values of the promocodes of type trainings; the free_trainings rows of
\* one user are a sequence, oldest first, of source and trainings_left
PromocodeValues == 1..2

\* scalar_one_or_none over the selected rows: none, the one row, or
\* MultipleResultsFound
scalar_one_or_none(rows, selected) ==
    IF selected = {} THEN [raised |-> FALSE, found |-> FALSE, at |-> 0]
    ELSE IF Cardinality(selected) = 1
    THEN [raised |-> FALSE, found |-> TRUE, at |-> CHOOSE i \in selected : TRUE]
    ELSE [raised |-> TRUE, found |-> FALSE, at |-> 0]

\* get_free_training: the user's row with trainings_left > 0, of any source
get_free_training(rows) ==
    scalar_one_or_none(rows, { i \in DOMAIN rows : rows[i].trainings_left > 0 })

\* add_free_trainings: the count is added to the row get_free_training finds,
\* whatever its source; a row of the given source is created only when there
\* is none with trainings left
add_free_trainings(rows, trainings_count, source) ==
    LET existing == get_free_training(rows)
    IN  IF existing.raised THEN [raised |-> TRUE, rows |-> rows]
        ELSE IF existing.found
        THEN [raised |-> FALSE,
              rows |-> [rows EXCEPT ![existing.at].trainings_left = @ + trainings_count]]
        ELSE [raised |-> FALSE,
              rows |-> Append(rows, [source |-> source, trainings_left |-> trainings_count])]

\* consume_access of a user without a credits subscription
consume_access(rows) ==
    LET free_training == get_free_training(rows)
    IN  IF free_training.raised THEN [raised |-> TRUE, consumed |-> FALSE, rows |-> rows]
        ELSE IF free_training.found
        THEN [raised |-> FALSE, consumed |-> TRUE,
              rows |-> [rows EXCEPT ![free_training.at].trainings_left = @ - 1]]
        ELSE [raised |-> FALSE, consumed |-> FALSE, rows |-> rows]

\* grant_channel_subscription_bonus: subscribed is what check_channel_subscription
\* answers; the bonus is refused when a row of source channel exists
grant_channel_subscription_bonus(rows, subscribed) ==
    IF ~subscribed THEN [raised |-> FALSE, granted |-> FALSE, rows |-> rows]
    ELSE LET existing_bonus ==
                 scalar_one_or_none(rows, { i \in DOMAIN rows : rows[i].source = "channel" })
         IN  IF existing_bonus.raised THEN [raised |-> TRUE, granted |-> FALSE, rows |-> rows]
             ELSE IF existing_bonus.found
             THEN [raised |-> FALSE, granted |-> FALSE, rows |-> rows]
             ELSE LET a == add_free_trainings(rows, FREE_TRAININGS_FOR_SUBSCRIPTION, "channel")
                  IN  [raised |-> a.raised, granted |-> ~a.raised, rows |-> a.rows]

\* a user without rows
PaymentsBegin ==
    /\ unit.pc = "idle"
    /\ unit' = [pc |-> "payments", fn |-> "begin", rows |-> <<>>, ops |-> 0,
                grants |-> 0, added |-> 0, raised |-> FALSE]
    /\ UNCHANGED <<db_session, db_stats, db_user, now, ev, llm, cc, tasks, fb_log>>

PaymentsOpen == unit.pc = "payments" /\ unit.ops < MaxPaymentOps

\* activate_promocode with a promocode of type trainings
ActivatePromocode(value) ==
    /\ PaymentsOpen
    /\ LET a == add_free_trainings(unit.rows, value, "promocode")
       IN  unit' = [unit EXCEPT !.fn = "activate_promocode", !.rows = a.rows,
                                !.ops = @ + 1, !.raised = a.raised]
    /\ UNCHANGED <<db_session, db_stats, db_user, now, ev, llm, cc, tasks, fb_log>>

\* a training is consumed
ConsumeAccess ==
    /\ PaymentsOpen
    /\ LET c == consume_access(unit.rows)
       IN  unit' = [unit EXCEPT !.fn = "consume_access", !.rows = c.rows,
                                !.ops = @ + 1, !.raised = c.raised]
    /\ UNCHANGED <<db_session, db_stats, db_user, now, ev, llm, cc, tasks, fb_log>>

\* the user asks for the channel bonus
GrantBonus(subscribed) ==
    /\ PaymentsOpen
    /\ LET g == grant_channel_subscription_bonus(unit.rows, subscribed)
       IN  unit' = [unit EXCEPT !.fn = "grant_channel_subscription_bonus",
                                !.rows = g.rows, !.ops = @ + 1, !.raised = g.raised,
                                !.grants = IF g.granted THEN @ + 1 ELSE @,
                                !.added = IF g.granted
                                          THEN @ + FREE_TRAININGS_FOR_SUBSCRIPTION ELSE @]
    /\ UNCHANGED <<db_session, db_stats, db_user, now, ev, llm, cc, tasks, fb_log>>

NextPayments ==
    \/ PaymentsBegin
    \/ \E value \in PromocodeValues : ActivatePromocode(value)
    \/ ConsumeAccess
    \/ \E subscribed \in BOOLEAN : GrantBonus(subscribed)

SpecPayments == Init /\ [][NextPayments]_vars


\* ===================================================== handle_message step by step

\* a handler between its session load and its return
InProgress(t) == tasks[t].pc \notin {"idle", "queued"}

\* Application.builder()...build() without concurrent_updates, handlers
\* registered blocking: the next update is processed when the handler of the
\* previous one has returned
DispatcherFree_mut_questions_only ==
    \A t \in TaskIds : tasks[t].kind = "question" => ~InProgress(t)
DispatcherFree_mut_feedback_only ==
    \A t \in TaskIds : tasks[t].kind = "feedback" => ~InProgress(t)
DispatcherFree == \A t \in TaskIds : ~InProgress(t)

TaskText(kind) == IF kind = "feedback" THEN "da" ELSE "what is your budget?"

\* an update with the feedback word or with a question arrives
task_arrive(t, kind) ==
    /\ WithinHorizon
    /\ tasks[t].pc = "idle"
    /\ tasks' = [tasks EXCEPT ![t] = [IdleTask EXCEPT !.pc = "queued", !.kind = kind]]
    /\ UNCHANGED <<db_session, db_stats, db_user, now, ev, llm, cc, fb_log, unit>>

\* handle_message starts: get_user_session; in waiting_start the text only
\* gets the prompt
task_load(t) ==
    /\ WithinHorizon
    /\ tasks[t].pc = "queued"
    /\ DispatcherFree
    /\ tasks' = IF InWaitingStart
                THEN [tasks EXCEPT ![t] = IdleTask]
                ELSE [tasks EXCEPT ![t].session = db_session, ![t].pc = "loaded"]
    /\ UNCHANGED <<db_session, db_stats, db_user, now, ev, llm, cc, fb_log, unit>>

\* the guard of the feedback branch: rejected, or the flag and the time are
\* set in the handler's copy of the session
task_feedback_guard(t) ==
    /\ tasks[t].pc = "loaded"
    /\ tasks[t].kind = "feedback"
    /\ tasks' = IF FeedbackRejected(tasks[t].session, now)
                THEN [tasks EXCEPT ![t].rejected = TRUE, ![t].pc = "finally"]
                ELSE [tasks EXCEPT ![t].session.feedback_in_progress = TRUE,
                                   ![t].session.last_feedback_ts = now,
                                   ![t].pc = "generating"]
    /\ UNCHANGED <<db_session, db_stats, db_user, now, ev, llm, cc, fb_log, unit>>

\* the generation returns: streaming attempt, then get_feedback on the stored session
task_feedback_generate(t, oracle, stream) ==
    /\ tasks[t].pc = "generating"
    /\ \E g \in {generate_feedback(db_session, oracle, stream, now)} :
         /\ tasks' = [tasks EXCEPT ![t].stream = g.stream, ![t].shown = g.shown,
                                   ![t].nonstream = g.nonstream,
                                   ![t].reissued = g.reissued,
                                   ![t].llm_calls = g.llm_calls,
                                   ![t].pc = "finally"]
         /\ fb_log' = IF db_session.last_question_type = "" THEN fb_log
                      ELSE [prompt_hash |-> build_feedback_prompt(db_session),
                            ts |-> now, text |-> g.shown, llm_calls |-> g.llm_calls]
    /\ UNCHANGED <<db_session, db_stats, db_user, now, ev, llm, cc, unit>>

\* the finally block: flag cleared, time stamped, the handler's copy saved;
\* when save_session raises, the exception leaves handle_message after the
\* user has got the feedback or the wait message, and nothing is stored
task_feedback_finally(t, storage_up) ==
    /\ tasks[t].pc = "finally"
    /\ LET saved == feedback_finally(tasks[t].session, now)
           op == IF tasks[t].rejected THEN "feedback_rejected" ELSE "feedback"
       IN  /\ db_session' = IF storage_up THEN saved ELSE db_session
           /\ tasks' = [tasks EXCEPT ![t] = IdleTask]
           /\ ev' = [Ev(op, TaskText("feedback"), IF storage_up THEN saved ELSE db_session,
                        NoCheck, tasks[t].llm_calls, "none", db_stats)
                     EXCEPT !.write = IF storage_up THEN "ok" ELSE "raised"]
    /\ UNCHANGED <<db_stats, db_user, now, llm, cc, fb_log, unit>>

\* process_question starts: get_user_data, then the classification request
task_question_start(t) ==
    /\ tasks[t].pc = "loaded"
    /\ tasks[t].kind = "question"
    /\ tasks[t].session.question_count < max_questions
    /\ tasks' = [tasks EXCEPT ![t].session = db_session, ![t].pc = "classifying"]
    /\ UNCHANGED <<db_session, db_stats, db_user, now, ev, llm, cc, fb_log, unit>>

\* process_question finishes on the copy it loaded and saves it; then the
\* completion check and complete_training. When save_user_data raises,
\* process_question re-raises and the handler answers with error_generic
task_question_commit(t, q) ==
    /\ tasks[t].pc = "classifying"
    /\ tasks' = [tasks EXCEPT ![t] = IdleTask]
    /\ \E p \in {process_question(tasks[t].session, q)} :
         IF p.raised
         THEN /\ ev' = Ev("question_error", TaskText("question"), db_session, NoCheck,
                          p.llm_calls, "none", db_stats)
              /\ UNCHANGED <<db_session, db_stats, db_user>>
         ELSE \E storage_up \in BOOLEAN :
              IF ~storage_up
              THEN /\ ev' = [Ev("question_error", TaskText("question"), db_session,
                                NoCheck, p.llm_calls, "none", db_stats)
                             EXCEPT !.write = "raised"]
                   /\ UNCHANGED <<db_session, db_stats, db_user>>
              ELSE \E chk \in {check_training_completion(p.session)} :
                   IF chk.done
                   THEN \E c \in {complete_training(p.session, db_stats, db_user)} :
                        /\ db_session' = c.session
                        /\ db_stats' = c.stats
                        /\ db_user' = c.user
                        /\ ev' = [Ev("question", TaskText("question"), p.session, chk,
                                     p.llm_calls, "reset_session", c.stats_before_reset)
                                  EXCEPT !.write = "ok"]
                   ELSE /\ db_session' = p.session
                        /\ ev' = [Ev("question", TaskText("question"), p.session, chk,
                                     p.llm_calls, "none", db_stats)
                                  EXCEPT !.write = "ok"]
                        /\ UNCHANGED <<db_stats, db_user>>
    /\ UNCHANGED <<now, llm, cc, fb_log, unit>>

\* time.time() advances
Tick ==
    /\ now < MaxTime
    /\ now' = now + 1
    /\ UNCHANGED <<db_session, db_stats, db_user, ev, llm, cc, tasks, fb_log, unit>>

TaskQuestionInputs ==
    { Q("need_payoff", TRUE, "yes", AllOk, AllOk, AllOk),
      Q("unknown", FALSE, "unclear", AllOk, AllOk, AllOk) }

NextTasks ==
    \/ (DispatcherFree /\ start_training_callback)
    \/ \E t \in TaskIds, kind \in {"feedback", "question"} : task_arrive(t, kind)
    \/ \E t \in TaskIds : task_load(t)
    \/ \E t \in TaskIds : task_feedback_guard(t)
    \/ \E t \in TaskIds, oracle \in SessionOracles, stream \in StreamOutcomes :
          task_feedback_generate(t, oracle, stream)
    \/ \E t \in TaskIds, storage_up \in BOOLEAN : task_feedback_finally(t, storage_up)
    \/ \E t \in TaskIds : task_question_start(t)
    \/ \E t \in TaskIds, q \in TaskQuestionInputs : task_question_commit(t, q)
    \/ Tick

SpecTasks == Init /\ [][NextTasks]_vars


\* ===================================================== Properties

\* the two resets: reset_session at the end of complete_training, and /start
DidReset(e) == e.reset \in {"reset_session", "start_command"}

StatsFields(st) ==
    <<st.total_trainings, st.total_questions, st.best_score, st.total_xp,
      st.current_level, st.achievements_unlocked, st.recent_cases>>

\* C1: every accepted question raises question_count by exactly 1 (the value
\* process_question saves is the stored value plus one), a handler that
\* neither accepts a question nor resets leaves it alone, and it only goes
\* down, to 0, through a reset (completion reset or /start).
C1_QuestionCountByOne ==
    [][ /\ (ev'.op = "question" =>
               ev'.question_count = db_session.question_count + 1)
        /\ (ev'.op = "question" /\ ~DidReset(ev') =>
               db_session'.question_count = db_session.question_count + 1)
        /\ (ev'.op # "question" /\ ~DidReset(ev') =>
               db_session'.question_count = db_session.question_count)
        /\ (db_session'.question_count < db_session.question_count =>
               DidReset(ev') /\ db_session'.question_count = 0) ]_vars

C1_Witness ==
    /\ ev.op = "question"
    /\ ~DidReset(ev)
    /\ db_session.question_count = 2

\* C2: clarity_level is within [0,100] after every update, in the session
\* process_question saves as well as in the stored session.
C2_ClarityInRange ==
    /\ db_session.clarity_level \in 0..clarity_cap
    /\ ev.clarity_level \in 0..clarity_cap

C2_Witness ==
    /\ ev.op = "question"
    /\ ev.question_count = max_questions
    /\ ev.clarity_level = clarity_cap

\* C3: with question_count >= max_questions check_training_completion returns
\* (true, "max_questions") whatever the clarity_level is.
C3_MaxQuestionsWins ==
    (cc.pc = "done" /\ cc.question_count >= max_questions) =>
        cc.result = [done |-> TRUE, reason |-> "max_questions"]

C3_Witness ==
    /\ cc.pc = "done"
    /\ cc.question_count = max_questions
    /\ cc.clarity_level >= target_clarity
    /\ cc.result.reason = "max_questions"

\* C4: with question_count < max_questions check_training_completion returns
\* (true, "clarity_reached") exactly when clarity_level >= target_clarity and
\* question_count >= min_questions_for_completion, and (false, "") otherwise.
C4_ClarityReachedExactly ==
    (cc.pc = "done" /\ cc.question_count < max_questions) =>
        IF cc.clarity_level >= target_clarity
           /\ cc.question_count >= min_questions_for_completion
        THEN cc.result = [done |-> TRUE, reason |-> "clarity_reached"]
        ELSE cc.result = [done |-> FALSE, reason |-> ""]

C4_Witness ==
    /\ cc.pc = "done"
    /\ cc.question_count = min_questions_for_completion
    /\ cc.clarity_level = target_clarity
    /\ cc.result.reason = "clarity_reached"

C6_ResetKeepsStats ==
    DidReset(ev) => StatsFields(db_stats) = StatsFields(ev.stats_before_reset)

C6_Witness ==
    /\ ev.reset = "reset_session"
    /\ db_stats.total_trainings = 1
    /\ db_stats.total_xp > 0
    /\ Len(db_stats.achievements_unlocked) > 0
    /\ Len(db_stats.recent_cases) > 0

\* C7: from chat_state new or waiting_start a start signal (a start word or
\* the start button) generates a case and sets chat_state to training_active.
C7_StartSignalStarts ==
    [][ ( /\ db_session.chat_state \in {"new", "waiting_start"}
          /\ (ev'.op = "start_button" \/ ev'.text \in StartWords) )
        => ( /\ db_session'.chat_state = "training_active"
             /\ db_session'.case_data # NoCase ) ]_vars

\* C8 (as stated): any text below the length threshold sent to an active
\* session changes neither chat_state, question_count, per_type_counts nor
\* clarity_level and makes no classifier or gateway call.
C8_AnyShortTextNoEffect ==
    [][ ( /\ db_session.chat_state = "training_active"
          /\ ev'.text \in Messages
          /\ len(ev'.text) < short_question_threshold )
        => ( /\ db_session'.chat_state = db_session.chat_state
             /\ db_session'.question_count = db_session.question_count
             /\ db_session'.per_type_counts = db_session.per_type_counts
             /\ db_session'.clarity_level = db_session.clarity_level
             /\ ev'.llm_calls = 0 ) ]_vars

\* C8 (amended): a text of at most short_question_threshold characters that is
\* not the feedback word, sent to an active session, is rejected: the session
\* and the stats are unchanged and no classifier or gateway call is made.
C8_ShortTextRejected ==
    [][ ( /\ db_session.chat_state = "training_active"
          /\ ev'.text \in Messages
          /\ len(ev'.text) <= short_question_threshold
          /\ upper(ev'.text) # "DA" )
        => ( /\ ev'.op = "short_rejected"
             /\ db_session' = db_session
             /\ db_stats' = db_stats
             /\ ev'.llm_calls = 0 ) ]_vars

C8_Witness ==
    /\ ev.op = "short_rejected"
    /\ ev.text = "start"
    /\ db_session.chat_state = "training_active"
    /\ db_session.question_count >= 1

AttemptFailed(call) == call.outcome \in FailureOutcomes

\* C9: call_llm never raises, and when every primary attempt and the fallback
\* attempt failed (exception, timeout, rejection, empty or malformed result)
\* it returns the fixed error text.
C9_TotalFailureGivesErrorText ==
    llm.pc = "done" =>
        /\ ~llm.result.raised
        /\ ( ( /\ \A i \in DOMAIN llm.result.calls : AttemptFailed(llm.result.calls[i])
               /\ llm.result.calls[Len(llm.result.calls)].route = "fallback" )
             => llm.result.text = ERROR_TEXT )

PrimaryCalls(calls) == {i \in DOMAIN calls : calls[i].route = "primary"}
FallbackCalls(calls) == {i \in DOMAIN calls : calls[i].route = "fallback"}

\* C10: for a kind other than feedback the primary is tried once and retried
\* at most LLM_MAX_RETRIES times; the fallback is called only after all these
\* attempts raised, and then exactly once; nothing is called after an attempt
\* that returned; a primary that fails throughout gets all its attempts.
C10_RetryThenFallbackOnce ==
    (llm.pc = "done" /\ llm.kind # "feedback") =>
        LET calls == llm.result.calls
            P == PrimaryCalls(calls)
            F == FallbackCalls(calls)
        IN  /\ Cardinality(P) <= LLM_MAX_RETRIES + 1
            /\ Cardinality(F) <= 1
            /\ \A f \in F :
                 /\ f = LLM_MAX_RETRIES + 2
                 /\ \A i \in 1..(f - 1) : calls[i].route = "primary" /\ calls[i].raised
            /\ \A i \in DOMAIN calls : i < Len(calls) => calls[i].raised
            /\ (\A i \in 1..(LLM_MAX_RETRIES + 1) : llm.oracle[i] \in FailureOutcomes)
                 => (Cardinality(P) = LLM_MAX_RETRIES + 1 /\ Cardinality(F) = 1)

C10_Witness ==
    /\ llm.pc = "done"
    /\ llm.kind = "classification"
    /\ Len(llm.result.calls) = LLM_MAX_RETRIES + 2
    /\ llm.result.calls[LLM_MAX_RETRIES + 2].route = "fallback"
    /\ llm.result.text # ERROR_TEXT


\* C11: a feedback call sends at most one request to the primary provider, and
\* when that request fails the next request goes to the fallback.
C11_FeedbackOnePrimaryRequest ==
    (llm.pc = "done" /\ llm.kind = "feedback") =>
        LET calls == llm.result.calls
        IN  /\ Cardinality(PrimaryCalls(calls)) <= 1
            /\ (AttemptFailed(calls[1]) =>
                   Len(calls) = 2 /\ calls[2].route = "fallback")

\* the request a call's fallback block starts with
FirstFallback(calls) == CHOOSE f \in FallbackCalls(calls) :
                            \A g \in FallbackCalls(calls) : f <= g

\* C12: when every primary attempt failed, call_llm returns the text a single
\* invocation of the kind's fallback (provider, model) returns for the same
\* provider behaviour (and the error text when that invocation raises).
C12_FallbackAlone ==
    (llm.pc = "done" /\ FallbackCalls(llm.result.calls) # {}) =>
        LET calls == llm.result.calls
            cfg == get_pipeline_config(llm.kind)
            single == invoke(cfg.fallback_provider, cfg.fallback_model, llm.kind,
                             llm.oracle, FirstFallback(calls))
        IN  /\ \A i \in PrimaryCalls(calls) : calls[i].raised
            /\ llm.result.text = IF single.raised THEN ERROR_TEXT ELSE single.text

C12_Witness ==
    /\ llm.pc = "done"
    /\ llm.kind = "response"
    /\ Cardinality(PrimaryCalls(llm.result.calls)) = LLM_MAX_RETRIES + 1
    /\ \A i \in PrimaryCalls(llm.result.calls) : llm.result.calls[i].raised
    /\ llm.result.text = ModelText("anthropic", "claude-3-haiku-latest")


\* C13: a feedback generation that follows another one for the same prompt
\* within the TTL returns the same text without a gateway call.
C13_RepeatedFeedbackFromCache ==
    [][ ( /\ fb_log' # fb_log
          /\ IsModelText(fb_log.text)
          /\ fb_log'.prompt_hash = fb_log.prompt_hash
          /\ fb_log'.ts - fb_log.ts < ttl_sec )
        => ( /\ fb_log'.text = fb_log.text
             /\ fb_log'.llm_calls = 0 ) ]_vars

\* C14: a feedback request whose session has feedback_in_progress set or whose
\* last_feedback_ts is less than cooldown_sec old is rejected at the guard,
\* never reaches the generation and ends with no gateway call.
C14_GuardRejects ==
    [][ \A t \in TaskIds :
          /\ ( /\ tasks[t].pc = "loaded"
               /\ tasks[t].kind = "feedback"
               /\ tasks'[t].pc # "loaded"
               /\ \/ tasks[t].session.feedback_in_progress
                  \/ now - tasks[t].session.last_feedback_ts < cooldown_sec )
             => ( /\ tasks'[t].pc = "finally"
                  /\ tasks'[t].rejected
                  /\ fb_log' = fb_log )
          /\ ( /\ tasks[t].pc = "finally"
               /\ tasks[t].rejected
               /\ tasks'[t].pc # "finally" )
             => ( /\ ev'.op = "feedback_rejected"
                  /\ ev'.llm_calls = 0
                  /\ fb_log' = fb_log ) ]_vars

C14_Witness ==
    /\ ev.op = "feedback_rejected"
    /\ fb_log.llm_calls = 1
    /\ now - fb_log.ts <= 1

\* C15: at most one feedback generation of the session is outstanding at any time.
C15_OneGenerationOutstanding ==
    Cardinality({t \in TaskIds : tasks[t].pc = "generating"}) <= 1

C15_Witness ==
    \E t, u \in TaskIds :
        /\ tasks[t].pc = "generating"
        /\ tasks[u].pc = "queued"
        /\ tasks[u].kind = "feedback"
        /\ db_session.last_question_type # ""

C17_QuestionsSerialized ==
    [][ \A t \in TaskIds :
          /\ (tasks[t].pc = "loaded" /\ tasks'[t].pc = "classifying")
               => \A u \in TaskIds \ {t} : tasks[u].pc # "classifying"
          /\ ( /\ tasks[t].pc = "classifying"
               /\ tasks'[t].pc # "classifying"
               /\ ev'.op = "question" )
             => ev'.question_count = db_session.question_count + 1 ]_vars

C17_Witness ==
    \E t, u \in TaskIds :
        /\ tasks[t].pc = "classifying"
        /\ tasks[t].session.question_count = 1
        /\ db_session.question_count = 1
        /\ ev.op = "question"
        /\ tasks[u].pc = "queued"
        /\ tasks[u].kind = "question"

\* the texts the non-streaming path can end with
NonStreamTexts ==
    {FEEDBACK_FIRST_ASK, ERROR_TEXT,
     ModelText(get_pipeline_config("feedback").primary_provider,
               get_pipeline_config("feedback").primary_model),
     ModelText(get_pipeline_config("feedback").fallback_provider,
               get_pipeline_config("feedback").fallback_model)}

Counters(session) ==
    <<session.question_count, session.per_type_counts, session.clarity_level>>

\* C19: a question whose classification or whose reply generation failed
\* leaves question_count, per_type_counts and clarity_level as they were.
C19_NoPartialIncrements ==
    [][ /\ ev'.op = "question_error" => Counters(db_session') = Counters(db_session)
        /\ ( /\ ev'.op = "question"
             /\ ev'.reset = "none"
             /\ db_session'.last_client_response = ERROR_TEXT )
           => Counters(db_session') = Counters(db_session) ]_vars

\* the handler told the user that the operation failed and should be repeated
ToldTryAgain(e) == e.op = "question_error"

\* C20: a handler whose write of the session raised ends with the try-again
\* message and the stored session is the one stored before it.
C20_WriteFailureAborts ==
    [][ \A t \in TaskIds :
          ( /\ tasks[t].pc \in {"classifying", "finally"}
            /\ tasks'[t].pc = "idle"
            /\ ev'.write = "raised" )
          => ( /\ ToldTryAgain(ev')
               /\ db_session' = db_session ) ]_vars

DetectorDone == unit.pc = "done" /\ unit.fn = "check_context_usage"

\* C21: when the heuristic finds the question contextual, the detector
\* returns true and the call of the context kind is not made.
C21_HeuristicTrueIsFinal ==
    ( /\ DetectorDone
      /\ unit.config.enabled
      /\ unit.last_response # <<>>
      /\ check_with_heuristic(unit.question, unit.last_response) )
    => ( unit.out.result /\ ~unit.out.consulted )

\* C22: when the call of the context kind raised, returned the error text or
\* returned a label that is neither yes nor no, the detector returns the
\* heuristic result.
C22_LlmFailureGivesHeuristic ==
    ( /\ DetectorDone
      /\ unit.config.enabled
      /\ unit.config.use_llm
      /\ unit.last_response # <<>>
      /\ LlmFailed(unit.reply) )
    => unit.out.result = check_with_heuristic(unit.question, unit.last_response)

\* the numbers of a text: its maximal runs of digits
NumericTokens(s) ==
    { SubSeq(s, p[1], p[2]) :
        p \in { p \in (1..Len(s)) \X (1..Len(s)) :
                  /\ p[1] <= p[2]
                  /\ \A k \in p[1]..p[2] : IsDigit(s[k])
                  /\ (p[1] = 1 \/ ~IsDigit(s[p[1] - 1]))
                  /\ (p[2] = Len(s) \/ ~IsDigit(s[p[2] + 1])) } }

\* C23: in heuristic-only mode with a non-empty last reply, a question that
\* holds a number of the last reply is detected as contextual.
C23_NumberOfReplyDetected ==
    ( /\ DetectorDone
      /\ unit.config = HeuristicOnly
      /\ unit.last_response # <<>>
      /\ NumericTokens(unit.last_response) \cap NumericTokens(unit.question) # {} )
    => unit.out.result

CompleteDone ==
    unit.pc = "rounds" /\ unit.fn = "complete_training" /\ unit.stats.total_trainings > 0

NoDuplicates(seq) == \A i, j \in DOMAIN seq : seq[i] = seq[j] => i = j

\* C24: a completed training reports no achievement that was unlocked before
\* it, reports none twice, and achievements_unlocked holds no id twice.
C24_AchievementsOnce ==
    CompleteDone =>
        /\ SeqToSet(unit.newly) \cap SeqToSet(unit.before.achievements_unlocked) = {}
        /\ NoDuplicates(unit.newly)
        /\ NoDuplicates(unit.stats.achievements_unlocked)
        /\ SeqToSet(unit.stats.achievements_unlocked) =
             SeqToSet(unit.before.achievements_unlocked) \cup SeqToSet(unit.newly)

C24_Witness ==
    /\ CompleteDone
    /\ unit.stats.total_trainings = 2
    /\ unit.before.achievements_unlocked = <<"first_training">>
    /\ unit.newly = <<"active_listener">>
    /\ unit.stats.achievements_unlocked = <<"first_training", "active_listener">>

\* C25: each level computation returns the highest level whose min_xp is at
\* most xp, and level 1 when there is none, the empty list included.
C25_HighestEligibleLevel ==
    (unit.pc = "done" /\ unit.fn = "calculate_level") =>
        unit.out = IF \E i \in DOMAIN unit.levels : unit.levels[i].min_xp <= unit.xp
                   THEN SetMax({ unit.levels[i].level :
                                   i \in { i \in DOMAIN unit.levels :
                                             unit.levels[i].min_xp <= unit.xp } })
                   ELSE 1

\* C26: update_stats of a completed session with score s and question_count q
\* adds 1 to total_trainings, q to total_questions, s to total_xp and makes
\* best_score the larger of the old best_score and s; the stats stored when
\* complete_training returns hold these values.
C26_UpdateStatsArithmetic ==
    CompleteDone =>
        /\ unit.updated.total_trainings = unit.before.total_trainings + 1
        /\ unit.updated.total_questions =
             unit.before.total_questions + unit.session.question_count
        /\ unit.updated.total_xp = unit.before.total_xp + unit.total_score
        /\ unit.updated.best_score =
             IF unit.before.best_score > unit.total_score
             THEN unit.before.best_score ELSE unit.total_score
        /\ unit.stats.total_trainings = unit.updated.total_trainings
        /\ unit.stats.total_questions = unit.updated.total_questions
        /\ unit.stats.total_xp = unit.updated.total_xp
        /\ unit.stats.best_score = unit.updated.best_score

C26_Witness ==
    /\ CompleteDone
    /\ unit.before.total_trainings = 1
    /\ unit.before.best_score = 80
    /\ unit.session.question_count = 1
    /\ unit.total_score = 10
    /\ unit.stats.best_score = 80
    /\ unit.stats.total_xp = 90
    /\ unit.stats.total_questions = 3

\* C27: the keys of the stored per_type_counts are among the question-type
\* identifiers the scenario declares.
C27_PerTypeKeysDeclared ==
    DOMAIN db_session.per_type_counts \subseteq QuestionTypeIds

\* the last n elements of a sequence
LastN(seq, n) == SubSeq(seq, Max(1, Len(seq) - n + 1), Len(seq))

\* C28: after any number of training starts recent_cases holds at most
\* recent_cases_limit hashes, those of the cases started last, in the order
\* they were started.
C28_RecentCasesFifo ==
    (unit.pc = "starts" /\ unit.fn = "start_training") =>
        /\ Len(unit.stats.recent_cases) <= recent_cases_limit
        /\ unit.stats.recent_cases = LastN(unit.used, recent_cases_limit)

C28_Witness ==
    /\ unit.pc = "starts"
    /\ unit.fn = "start_training"
    /\ Len(unit.used) = recent_cases_limit + 2
    /\ unit.used[1] # unit.used[3]
    /\ Len(unit.stats.recent_cases) = recent_cases_limit
    /\ unit.stats.recent_cases[1] = unit.used[3]

FeedbackDone == unit.pc = "done" /\ unit.fn = "get_feedback"

\* the cache slot of the session get_feedback was called on holds an entry for
\* the session's prompt that is younger than ttl_sec
FreshEntry ==
    /\ unit.session.feedback_cache # NoCache
    /\ unit.session.feedback_cache.prompt_hash = build_feedback_prompt(unit.session)
    /\ unit.t - unit.session.feedback_cache.ts < ttl_sec

\* C29: with an entry of the same prompt hash younger than ttl_sec get_feedback
\* returns the cached text and makes no gateway call; an entry that is older or
\* has another hash is not returned, the gateway is called.
C29_CacheHitOnlyWhenFresh ==
    FeedbackDone =>
        /\ FreshEntry =>
             /\ unit.out.message = format_feedback_message(unit.session.feedback_cache.text)
             /\ unit.out.llm_calls = 0
        /\ (~FreshEntry /\ unit.session.feedback_cache # NoCache) =>
             /\ unit.out.text # unit.session.feedback_cache.text
             /\ unit.out.llm_calls = 1

C29_Witness ==
    /\ FeedbackDone
    /\ FreshEntry
    /\ unit.t - unit.session.feedback_cache.ts = ttl_sec - 1
    /\ unit.out.text = CachedText
    /\ unit.out.llm_calls = 0

\* C30: an empty or malformed provider result is a failed attempt, so call_llm
\* never hands back an empty text: every provider request that came back empty
\* or malformed is logged as raised and the returned text is not empty.
C30_EmptyResultIsFailure ==
    (llm.pc = "done" /\ ~llm.result.raised) =>
        /\ llm.result.text # ""
        /\ \A i \in 1..Len(llm.result.calls) :
             llm.result.calls[i].outcome \in {"empty", "malformed"}
                => llm.result.calls[i].raised

\* a round has just become active through start_training
RoundJustStarted == ev.op \in {"start_text", "start_button"}

\* C31: the detector of an accepted question is run against the reply the
\* previous accepted question of the same round stored, not against the reply
\* generated for this question; the first question of a round has no previous
\* reply and is never contextual.
C31_DetectorAgainstPreviousReply ==
    [][ (ev'.op = "question" /\ db_session.chat_state = "training_active") =>
          /\ ev'.is_contextual => db_session.last_client_response # ""
          /\ RoundJustStarted =>
                (db_session.last_client_response = "" /\ ~ev'.is_contextual) ]_vars

\* C32: questions are accepted only in chat_state training_active; in state
\* new no user text changes question_count, per_type_counts or clarity_level.
C32_NoQuestionInNew ==
    [][ (db_session.chat_state = "new" /\ ev'.text \in Messages) =>
          /\ db_session'.question_count = db_session.question_count
          /\ db_session'.per_type_counts = db_session.per_type_counts
          /\ db_session'.clarity_level = db_session.clarity_level ]_vars

\* C33: a feedback request the guard rejected changes nothing in the stored
\* session: feedback_in_progress and last_feedback_ts keep the values they had
\* before the request ended.
C33_RejectedChangesNothing ==
    [][ \A t \in TaskIds :
          (tasks[t].pc = "finally" /\ tasks[t].rejected /\ tasks'[t].pc = "idle") =>
             /\ db_session'.feedback_in_progress = db_session.feedback_in_progress
             /\ db_session'.last_feedback_ts = db_session.last_feedback_ts ]_vars

\* C34: get_feedback writes the cache slot only with the text of a successful
\* provider call; after a generation that ended in total gateway failure the
\* next request on that session calls the gateway again.
C34_FailureNotCached ==
    FeedbackDone =>
        /\ unit.out.session.feedback_cache # unit.session.feedback_cache =>
              IsModelText(unit.out.session.feedback_cache.text)
        /\ unit.out.text = ERROR_TEXT =>
              get_feedback(unit.out.session, AllOk, unit.t).llm_calls = 1

\* C35: question_count never exceeds max_questions: once it has reached
\* max_questions no further question is processed, and a text that would be a
\* question completes the round instead.
C35_CountWithinMax ==
    [][ /\ db_session'.question_count <= max_questions
        /\ db_session.question_count >= max_questions =>
              ev'.op \notin {"question", "question_error"}
        /\ ( /\ db_session.question_count >= max_questions
             /\ ev'.text \in Messages
             /\ ~IsFeedbackWord(ev'.text) /\ ~IsFinishWord(ev'.text) /\ ~IsShort(ev'.text) )
           => ev'.op = "max_complete" ]_vars

C35_Witness ==
    /\ ev.op = "max_complete"
    /\ ev.reset = "reset_session"
    /\ ev.stats_before_reset.total_questions >= max_questions
    /\ db_session.question_count = 0

\* C36: in chat_state waiting_start question_count = 0, clarity_level = 0 and
\* there is no case, and a text that is not a start word (the feedback word,
\* the finish word, a question) changes neither the session nor the stats.
C36_WaitingStartIsClean ==
    [][ /\ db_session'.chat_state = "waiting_start" =>
              /\ db_session'.question_count = 0
              /\ db_session'.clarity_level = 0
              /\ db_session'.case_data = NoCase
        /\ ( /\ db_session.chat_state = "waiting_start"
             /\ ev'.text \in Messages
             /\ ~IsStartWord(ev'.text) )
           => ( /\ ev'.op = "waiting_prompt"
                /\ db_session' = db_session
                /\ db_stats' = db_stats ) ]_vars

C36_Witness ==
    /\ ev.op = "waiting_prompt"
    /\ IsFinishWord(ev.text)
    /\ db_session.chat_state = "waiting_start"
    /\ db_session.question_count = 0
    /\ Len(db_stats.recent_cases) >= 1

\* C37: a round that has just become active through start_training (start
\* word or start button) starts from zero: question_count = 0, clarity_level
\* = 0, every per_type_counts entry 0 and no stored counterpart reply.
C37_RoundStartsFromZero ==
    RoundJustStarted =>
        /\ db_session.chat_state = "training_active"
        /\ db_session.question_count = 0
        /\ db_session.clarity_level = 0
        /\ \A k \in DOMAIN db_session.per_type_counts : db_session.per_type_counts[k] = 0
        /\ db_session.last_client_response = ""

\* the per-type counts of the declared question types, added up
TypeCountSum(session) ==
    Get(session.per_type_counts, "situational") + Get(session.per_type_counts, "problem")
    + Get(session.per_type_counts, "implication") + Get(session.per_type_counts, "need_payoff")

\* C38: in every reachable session state the per_type_counts of all question
\* types add up to question_count.
C38_TypeCountsAddUp ==
    TypeCountSum(db_session) = db_session.question_count

C38_Witness ==
    /\ db_session.question_count >= 2
    /\ Get(db_session.per_type_counts, "situational") >= 1
    /\ Get(db_session.per_type_counts, "need_payoff") >= 1

\* C39: after every completed training the stored current_level is the level
\* that the total_xp of the same stats determines.
C39_LevelFollowsStatsXp ==
    CompleteDone =>
        unit.stats.current_level =
            AchievementService_calculate_level(unit.stats.total_xp, Levels)

\* C40: the channel-subscription bonus is granted at most once per user,
\* whatever promocode activations, training consumptions and bonus requests
\* happen: grant_channel_subscription_bonus returns true at most once.
C40_BonusAtMostOnce ==
    unit.pc = "payments" =>
        /\ unit.grants <= 1
        /\ unit.added <= FREE_TRAININGS_FOR_SUBSCRIPTION

====
